---- MODULE Spec2Model ----
(***************************************************************************)
(* Model of the venue-optimization service (src/main.py: the /vor handler  *)
(* run_vor over the module-level event table df) and of the market report  *)
(* library (src/mar.py: generate_mar over a table passed by the caller).   *)
(*                                                                         *)
(* Text values are sequences of one-character strings, so that strip,      *)
(* upper, lower, split, zfill and lexicographic comparison are computed.   *)
(* Floating-point values are exact rationals extended with inf and nan     *)
(* (the datasets hold counts and costs, never negative, so there is no     *)
(* -inf), with the IEEE rules for division by zero and for nan that numpy  *)
(* applies.                                                                *)
(* Dates are whole day numbers; NaT is the missing date.                   *)
(***************************************************************************)
EXTENDS Integers, Sequences, FiniteSets, TLC

VARIABLES df, request, response, local, caller_df, mar_args, mar_result

vars == <<df, request, response, local, caller_df, mar_args, mar_result>>

-----------------------------------------------------------------------------
(* Text *)

\* A missing text cell (pandas NaN in an object column).
NA == <<"<NA>">>

\* The characters in code-point order: str comparison and sorted() follow it.
CharOrder ==
  << " ", ",", "0", "1", "2", "3", "4", "5", "6", "7", "8", "9", ":",
     "A", "B", "C", "D", "E", "F", "G", "H", "I", "J", "K", "L", "M",
     "N", "O", "P", "Q", "R", "S", "T", "U", "V", "W", "X", "Y", "Z", "_",
     "a", "b", "c", "d", "e", "f", "g", "h", "i", "j", "k", "l", "m",
     "n", "o", "p", "q", "r", "s", "t", "u", "v", "w", "x", "y", "z" >>

\* ord(c), as the position of the character.
OrdTable ==
  [c \in {CharOrder[i] : i \in 1..Len(CharOrder)} |->
     CHOOSE i \in 1..Len(CharOrder) : CharOrder[i] = c]

Ord(c) == OrdTable[c]

IsUpperChar(c) == Ord(c) \in 14..39
IsLowerChar(c) == Ord(c) \in 41..66
IsDigitChar(c) == Ord(c) \in 3..12

UpperChar(c) == IF IsLowerChar(c) THEN CharOrder[Ord(c) - 27] ELSE c
LowerChar(c) == IF IsUpperChar(c) THEN CharOrder[Ord(c) + 27] ELSE c

\* str.upper / str.lower
Upper(s) == [i \in 1..Len(s) |-> UpperChar(s[i])]
Lower(s) == [i \in 1..Len(s) |-> LowerChar(s[i])]

RECURSIVE LStrip(_)
LStrip(s) == IF s # <<>> /\ Head(s) = " " THEN LStrip(Tail(s)) ELSE s

RECURSIVE RStrip(_)
RStrip(s) ==
  IF s # <<>> /\ s[Len(s)] = " " THEN RStrip(SubSeq(s, 1, Len(s) - 1)) ELSE s

\* str.strip
Strip(s) == RStrip(LStrip(s))

\* str.isdigit
IsDigit(s) == s # <<>> /\ \A i \in 1..Len(s) : IsDigitChar(s[i])

RECURSIVE ZFill(_, _)
\* str.zfill(width)
ZFill(s, width) == IF Len(s) >= width THEN s ELSE ZFill(<<"0">> \o s, width)

RECURSIVE StrLt(_, _)
\* a < b for str
StrLt(a, b) ==
  IF b = <<>> THEN FALSE
  ELSE IF a = <<>> THEN TRUE
  ELSE IF Head(a) = Head(b) THEN StrLt(Tail(a), Tail(b))
  ELSE Ord(Head(a)) < Ord(Head(b))

RECURSIVE InsertSorted(_, _)
InsertSorted(x, seq) ==
  IF seq = <<>> THEN <<x>>
  ELSE IF StrLt(x, Head(seq)) THEN <<x>> \o seq
  ELSE <<Head(seq)>> \o InsertSorted(x, Tail(seq))

RECURSIVE SortedStrs(_)
\* sorted(set_of_str): the ascending list of a set of str.
SortedStrs(S) ==
  IF S = {} THEN <<>>
  ELSE LET x == CHOOSE y \in S : TRUE IN InsertSorted(x, SortedStrs(S \ {x}))

RECURSIVE Join(_, _)
\* sep.join(seq)
Join(sep, seq) ==
  IF seq = <<>> THEN <<>>
  ELSE IF Len(seq) = 1 THEN Head(seq)
  ELSE Head(seq) \o sep \o Join(sep, Tail(seq))

RECURSIVE SplitFrom(_, _, _)
SplitFrom(s, cur, acc) ==
  IF s = <<>> THEN (IF cur = <<>> THEN acc ELSE Append(acc, cur))
  ELSE IF Head(s) = " "
       THEN SplitFrom(Tail(s), <<>>, IF cur = <<>> THEN acc ELSE Append(acc, cur))
       ELSE SplitFrom(Tail(s), Append(cur, Head(s)), acc)

\* str.split(): the whitespace-separated tokens.
Split(s) == SplitFrom(s, <<>>, <<>>)

Range(seq) == {seq[i] : i \in 1..Len(seq)}

RECURSIVE SelectIdx(_, _, _)
SelectIdx(seq, Keep(_), i) ==
  IF i > Len(seq) THEN <<>>
  ELSE (IF Keep(seq[i]) THEN <<seq[i]>> ELSE <<>>) \o SelectIdx(seq, Keep, i + 1)

\* table[mask]: the rows that satisfy Keep, in table order.
Filter(seq, Keep(_)) == SelectIdx(seq, Keep, 1)

-----------------------------------------------------------------------------
(* Numbers *)

RECURSIVE GCD(_, _)
GCD(a, b) == IF b = 0 THEN a ELSE GCD(b, a % b)

NaN == [k |-> "nan", n |-> 0, d |-> 1]
Inf == [k |-> "inf", n |-> 0, d |-> 1]

\* The finite value n/d (d > 0), in lowest terms.
Fin(n, d) == LET g == GCD(n, d) IN [k |-> "fin", n |-> n \div g, d |-> d \div g]

IsNaN(x) == x.k = "nan"
IsFin(x) == x.k = "fin"
IsZero(x) == x.k = "fin" /\ x.n = 0

\* a / b on float64 columns: x/0 is inf, 0/0 and inf/inf are nan.
Div(a, b) ==
  IF IsNaN(a) \/ IsNaN(b) THEN NaN
  ELSE IF IsFin(a) /\ IsFin(b)
       THEN (IF b.n = 0 THEN (IF a.n = 0 THEN NaN ELSE Inf)
             ELSE Fin(a.n * b.d, a.d * b.n))
  ELSE IF IsFin(a) THEN Fin(0, 1)
  ELSE IF IsFin(b) THEN Inf
  ELSE NaN

\* a * b: 0 * inf is nan.
Mul(a, b) ==
  IF IsNaN(a) \/ IsNaN(b) THEN NaN
  ELSE IF IsFin(a) /\ IsFin(b) THEN Fin(a.n * b.n, a.d * b.d)
  ELSE IF IsZero(a) \/ IsZero(b) THEN NaN
  ELSE Inf

\* a + b
Add(a, b) ==
  IF IsNaN(a) \/ IsNaN(b) THEN NaN
  ELSE IF IsFin(a) /\ IsFin(b) THEN Fin(a.n * b.d + b.n * a.d, a.d * b.d)
  ELSE Inf

\* a < b: every comparison with nan is False.
Lt(a, b) ==
  IF IsNaN(a) \/ IsNaN(b) THEN FALSE
  ELSE IF IsFin(a) /\ IsFin(b) THEN a.n * b.d < b.n * a.d
  ELSE IsFin(a)

RECURSIVE Pow10(_)
Pow10(k) == IF k = 0 THEN 1 ELSE 10 * Pow10(k - 1)

\* round(x, ndigits): to the nearest multiple of 10^-ndigits, halves to even;
\* nan and inf are returned unchanged.
Round(x, ndigits) ==
  IF ~IsFin(x) THEN x
  ELSE LET scale == Pow10(ndigits)
           q == (x.n * scale) \div x.d
           r == (x.n * scale) % x.d
       IN IF 2 * r < x.d THEN Fin(q, scale)
          ELSE IF 2 * r > x.d THEN Fin(q + 1, scale)
          ELSE IF q % 2 = 0 THEN Fin(q, scale)
          ELSE Fin(q + 1, scale)

RECURSIVE SumSeq(_)
SumSeq(xs) == IF xs = <<>> THEN Fin(0, 1) ELSE Add(Head(xs), SumSeq(Tail(xs)))

NotNaN(x) == ~IsNaN(x)

\* Series.mean(): nan values are skipped (skipna=True), inf values are not;
\* the mean of no value is nan.
Mean(xs) ==
  LET kept == Filter(xs, NotNaN)
  IN IF kept = <<>> THEN NaN ELSE Div(SumSeq(kept), Fin(Len(kept), 1))

\* Series.min(): nan values are skipped; the minimum of no value is nan.
Min(xs) ==
  LET kept == Filter(xs, NotNaN)
  IN IF kept = <<>> THEN NaN
     ELSE CHOOSE m \in Range(kept) : \A y \in Range(kept) : ~Lt(y, m)

-----------------------------------------------------------------------------
(* Fuzzy city matching: fuzz.token_set_ratio, as get_similar_cities calls it *)

Max2(a, b) == IF a >= b THEN a ELSE b

RECURSIVE LcsRow(_, _, _, _, _)
\* One row of the longest-common-subsequence table: acc[j + 1] is the value
\* for the first j characters of b.
LcsRow(c, b, prev, j, acc) ==
  IF j > Len(b) THEN acc
  ELSE LcsRow(c, b, prev, j + 1,
              Append(acc, IF c = b[j] THEN prev[j] + 1
                          ELSE Max2(prev[j + 1], acc[j])))

RECURSIVE LcsFrom(_, _, _, _)
LcsFrom(a, b, i, prev) ==
  IF i > Len(a) THEN prev[Len(b) + 1]
  ELSE LcsFrom(a, b, i + 1, LcsRow(a[i], b, prev, 1, <<0>>))

\* The number of matched characters of the sequence matcher.
Matches(a, b) == LcsFrom(a, b, 1, [j \in 1..(Len(b) + 1) |-> 0])

\* fuzz.ratio: 100 for equal strings, 0 when one is empty, else
\* int(round(100 * 2 * M / T)).
ratio(s1, s2) ==
  IF s1 = s2 THEN 100
  ELSE IF s1 = <<>> \/ s2 = <<>> THEN 0
  ELSE Round(Fin(200 * Matches(s1, s2), Len(s1) + Len(s2)), 0).n

\* utils.full_process: non-alphanumerics to spaces, lower-case, strip.
full_process(s) ==
  Strip(Lower([i \in 1..Len(s) |->
                 IF IsDigitChar(s[i]) \/ IsUpperChar(s[i]) \/ IsLowerChar(s[i])
                 THEN s[i] ELSE " "]))

Max3(a, b, c) == Max2(a, Max2(b, c))

\* The best of the three comparisons of token_set_ratio.
TokenSetBest(sect, combined_1to2, combined_2to1) ==
  Max3(ratio(sect, combined_1to2),
       ratio(sect, combined_2to1),
       ratio(combined_1to2, combined_2to1))

\* The joined tokens compared: the common ones alone and with each rest.
TokenSetJoined(sorted_sect, sorted_1to2, sorted_2to1) ==
  TokenSetBest(Strip(sorted_sect),
               Strip(sorted_sect \o <<" ">> \o sorted_1to2),
               Strip(sorted_sect \o <<" ">> \o sorted_2to1))

\* The common tokens and the tokens of one side only, each sorted and joined.
TokenSets(tokens1, tokens2) ==
  TokenSetJoined(Join(<<" ">>, SortedStrs(tokens1 \cap tokens2)),
                 Join(<<" ">>, SortedStrs(tokens1 \ tokens2)),
                 Join(<<" ">>, SortedStrs(tokens2 \ tokens1)))

\* token_set_ratio on the processed strings: 0 when one of them is empty.
TokenSetProcessed(p1, p2) ==
  IF p1 = <<>> \/ p2 = <<>> THEN 0
  ELSE TokenSets(Range(Split(p1)), Range(Split(p2)))

\* fuzz.token_set_ratio(s1, s2)
token_set_ratio(s1, s2) == TokenSetProcessed(full_process(s1), full_process(s2))

-----------------------------------------------------------------------------
(* Dates *)

\* The missing date (pandas NaT): every real date is a day number >= 0.
NaT == 0 - 1

WeekDays ==
  <<"Monday", "Tuesday", "Wednesday", "Thursday", "Friday", "Saturday", "Sunday">>

\* The day names in str order, the order groupby("event_day") lists them in.
DaysSorted ==
  <<"Friday", "Monday", "Saturday", "Sunday", "Thursday", "Tuesday", "Wednesday">>

NoDay == "NaN"

\* Series.dt.day_name(): NaN for NaT.
day_name(date) == IF date = NaT THEN NoDay ELSE WeekDays[(date % 7) + 1]

-----------------------------------------------------------------------------
(* Loading the dataset (module level of main.py) *)

\* The zip_code column: fillna(''), astype(str), strip, zfill(5).
LoadZip(z) == ZFill(Strip(IF z = NA THEN <<>> ELSE z), 5)

\* One row of df after the load: event_day derived from event_date,
\* event_time stripped, zip_code normalised.
LoadRow(raw) ==
  [venue |-> raw.venue, city |-> raw.city, state |-> raw.state,
   zip_code |-> LoadZip(raw.zip_code), topic |-> raw.topic,
   event_date |-> raw.event_date, event_day |-> day_name(raw.event_date),
   event_time |-> IF raw.event_time = NA THEN NA ELSE Strip(raw.event_time),
   attended_hh |-> raw.attended_hh,
   gross_registrants |-> raw.gross_registrants,
   registration_max |-> raw.registration_max, fb_cpr |-> raw.fb_cpr,
   venue_disclosure |-> raw.venue_disclosure,
   image_allowed |-> raw.image_allowed]

LoadData(rawTable) == [i \in 1..Len(rawTable) |-> LoadRow(rawTable[i])]

-----------------------------------------------------------------------------
(* Constants and helpers of main.py *)

TIR == <<"T", "I", "R">>
EP == <<"E", "P">>
SS == <<"S", "S">>

NoTopic == "None"

\* TOPIC_MAP.get(topic_key)
TOPIC_MAP(topic_key) ==
  IF topic_key = TIR THEN "taxes_in_retirement_567"
  ELSE IF topic_key = EP THEN "estate_planning_567"
  ELSE IF topic_key = SS THEN "social_security_567"
  ELSE NoTopic

\* str(val) of a flag cell is its text; a missing cell prints as "nan".
is_true(val) == Upper(Strip(val)) = <<"T", "R", "U", "E">>

\* The default threshold of get_similar_cities.
threshold == 75

StateIs(row, state) == row.state # NA /\ Upper(Strip(row.state)) = state

\* get_similar_cities(input_city, state): the distinct non-missing cities of
\* the rows of that state whose token-set ratio reaches the threshold.
get_similar_cities(table, input_city, state) ==
  LET normalized_city == Lower(Strip(input_city))
      candidates ==
        {table[i].city : i \in {j \in 1..Len(table) :
           StateIs(table[j], state) /\ table[j].city # NA}}
  IN {city \in candidates :
        token_set_ratio(normalized_city, Lower(Strip(city))) >= threshold}

RECURSIVE TitleFrom(_, _)
TitleFrom(s, start) ==
  IF s = <<>> THEN <<>>
  ELSE LET c == Head(s)
           letter == IsUpperChar(c) \/ IsLowerChar(c)
       IN <<IF ~letter THEN c ELSE IF start THEN UpperChar(c) ELSE LowerChar(c)>>
          \o TitleFrom(Tail(s), ~letter)

\* str.title()
Title(s) == TitleFrom(s, TRUE)

-----------------------------------------------------------------------------
(* run_vor: request-local tables *)

\* table[column] as a list of cells.
Col(rows, f) == [i \in 1..Len(rows) |-> rows[i][f]]

\* The topic and location filter of run_vor for a postal-code request.
FilterByZip(table, topic, zip_str) ==
  Filter(table, LAMBDA row : row.topic = topic /\ ZFill(row.zip_code, 5) = zip_str)

\* FilterByCity without the comparison of the state.
FilterByCity_any_state(table, topic, similar_cities, state) ==
  LET names == {Lower(Strip(c)) : c \in similar_cities}
  IN Filter(table, LAMBDA row :
       /\ row.topic = topic
       /\ row.city # NA /\ Lower(Strip(row.city)) \in names)

\* The topic and location filter of run_vor for a city/state request.
FilterByCity(table, topic, similar_cities, state) ==
  LET names == {Lower(Strip(c)) : c \in similar_cities}
  IN Filter(table, LAMBDA row :
       /\ row.topic = topic
       /\ row.city # NA /\ Lower(Strip(row.city)) \in names
       /\ StateIs(row, state))

\* The assumed maximum practical fill rate.
CapacityDivisor == Fin(12, 5)

attendance_rate(row) == Div(row.attended_hh, row.gross_registrants)

fulfillment_pct(row) ==
  Div(row.attended_hh, Div(row.registration_max, CapacityDivisor))

cpa(row) == Div(row.fb_cpr, attendance_rate(row))

\* score with the events weighted by their age.
score_weighted(row, today) ==
  Mul(Mul(Add(Add(Mul(Div(Fin(1, 1), cpa(row)), Fin(1, 2)),
                  Mul(fulfillment_pct(row), Fin(3, 10))),
              Mul(attendance_rate(row), Fin(1, 5))),
          IF row.event_date = NaT THEN Fin(1, 1)
          ELSE IF today - row.event_date <= 30 THEN Fin(5, 4)
          ELSE IF today - row.event_date <= 90 THEN Fin(1, 1)
          ELSE Fin(4, 5)),
      Fin(40, 1))

\* The score column: ((1 / cpa * 0.5) + (fulfillment * 0.3) + (attendance * 0.2)) * 40.
\* The age of the event does not enter it.
score(row, today) ==
  Mul(Add(Add(Mul(Div(Fin(1, 1), cpa(row)), Fin(1, 2)),
              Mul(fulfillment_pct(row), Fin(3, 10))),
          Mul(attendance_rate(row), Fin(1, 5))),
      Fin(40, 1))

\* filtered.copy() with the four derived columns added.
DeriveRow(row, today) ==
  row @@ [attendance_rate |-> attendance_rate(row),
          fulfillment_pct |-> fulfillment_pct(row),
          cpa |-> cpa(row),
          score |-> score(row, today)]

Derive(rows, today) == [i \in 1..Len(rows) |-> DeriveRow(rows[i], today)]

\* The keys of filtered.groupby("venue"): the distinct venue names in
\* ascending order; rows with a missing venue belong to no group.
VenueKeys(rows) == SortedStrs({rows[i].venue : i \in 1..Len(rows)} \ {NA})

Group(rows, venue_name) == Filter(rows, LAMBDA row : row.venue = venue_name)

HasDate(row) == row.event_date # NaT

\* MostRecent with the sort ascending: a row with the earliest date.
MostRecent_earliest(rows, tie) ==
  LET dated == Filter(rows, HasDate)
      earliest == CHOOSE d \in Range(Col(dated, "event_date")) :
                    \A e \in Range(Col(dated, "event_date")) : d <= e
      ties == Filter(dated, LAMBDA row : row.event_date = earliest)
  IN IF dated = <<>> THEN (IF tie = "first" THEN rows[1] ELSE rows[Len(rows)])
     ELSE IF tie = "first" THEN ties[1] ELSE ties[Len(ties)]

\* sort_values("event_date", ascending=False).iloc[0]: a row with the latest
\* date, missing dates last.  The sort is not stable by contract: tie says
\* which of several rows with the latest date comes first.
MostRecent(rows, tie) ==
  LET dated == Filter(rows, HasDate)
      latest == CHOOSE d \in Range(Col(dated, "event_date")) :
                  \A e \in Range(Col(dated, "event_date")) : e <= d
      ties == Filter(dated, LAMBDA row : row.event_date = latest)
  IN IF dated = <<>> THEN (IF tie = "first" THEN rows[1] ELSE rows[Len(rows)])
     ELSE IF tie = "first" THEN ties[1] ELSE ties[Len(ties)]

RECURSIVE InsertDesc(_, _)
InsertDesc(x, sorted) ==
  IF sorted = <<>> THEN <<x>>
  ELSE IF Lt(Head(sorted).val, x.val) \/ (IsNaN(Head(sorted).val) /\ ~IsNaN(x.val))
       THEN <<x>> \o sorted
  ELSE <<Head(sorted)>> \o InsertDesc(x, Tail(sorted))

RECURSIVE SortValuesDesc(_, _)
\* Series.sort_values(ascending=False): descending, nan last, equal values in
\* their original order.
SortValuesDesc(seq, acc) ==
  IF seq = <<>> THEN acc
  ELSE SortValuesDesc(Tail(seq), InsertDesc(Head(seq), acc))

Head2(seq) == IF Len(seq) <= 2 THEN seq ELSE SubSeq(seq, 1, 2)

\* best_days: the two days with the highest mean of mean attendance rate
\* and mean fulfillment (rows with no date have no day).
BestDays(group) ==
  LET present == {group[i].event_day : i \in 1..Len(group)} \ {NoDay}
      keys == Filter(DaysSorted, LAMBDA d : d \in present)
      best_day_scores ==
        [i \in 1..Len(keys) |->
           LET x == Filter(group, LAMBDA row : row.event_day = keys[i])
           IN [key |-> keys[i],
               val |-> Div(Add(Mean(Col(x, "attendance_rate")),
                               Mean(Col(x, "fulfillment_pct"))), Fin(2, 1))]]
  IN Col(Head2(SortValuesDesc(best_day_scores, <<>>)), "key")

H1100 == <<"1", "1", ":", "0", "0">>
H1130 == <<"1", "1", ":", "3", "0">>
H1800 == <<"1", "8", ":", "0", "0">>
H1830 == <<"1", "8", ":", "3", "0">>

preferred_times == {H1100, H1130, H1800, H1830}

NotEnoughData ==
  <<"N", "o", "t", " ", "e", "n", "o", "u", "g", "h", " ", "d", "a", "t", "a">>

\* The cost-per-acquisition cut-off of an extra (non-preferred) time.
ExtraCpaLimit == 70

\* best_preferred_cpa when the venue has no preferred time.
NoPreferredCpa == 9999

\* groupby("event_time").agg(...): per time, in str order, the mean fb_cpr
\* and the mean attendance rate.
TimeAgg(group, keys) ==
  [i \in 1..Len(keys) |->
     LET x == Filter(group, LAMBDA row : row.event_time = keys[i])
     IN [key |-> keys[i],
         fb_cpr |-> Mean(Col(x, "fb_cpr")),
         attendance_rate |-> Mean(Col(x, "attendance_rate"))]]

\* time_scores["cpa"] = fb_cpr / attendance_rate
WithCpa(kept) ==
  [i \in 1..Len(kept) |->
     kept[i] @@ [cpa |-> Div(kept[i].fb_cpr, kept[i].attendance_rate)]]

\* time_scores: the aggregate per event_time, rows with a nan dropped, and
\* the cpa column.
TimeScores(group) ==
  WithCpa(Filter(TimeAgg(group,
                         SortedStrs({group[i].event_time : i \in 1..Len(group)} \ {NA})),
                 LAMBDA t : ~IsNaN(t.fb_cpr) /\ ~IsNaN(t.attendance_rate)))

Values(t) == <<t.fb_cpr, t.attendance_rate, t.cpa>>

RECURSIVE DropDuplicates(_, _)
\* DataFrame.drop_duplicates(): of rows with equal values in every column the
\* first is kept (the index, here the time, is not compared).
DropDuplicates(rows, seen) ==
  IF rows = <<>> THEN <<>>
  ELSE IF Values(Head(rows)) \in seen THEN DropDuplicates(Tail(rows), seen)
  ELSE <<Head(rows)>> \o DropDuplicates(Tail(rows), seen \cup {Values(Head(rows))})

\* best_preferred_cpa: the lowest cpa of the preferred times, if any.
BestPreferredCpa(base_times) ==
  IF base_times = <<>> THEN Fin(NoPreferredCpa, 1) ELSE Min(Col(base_times, "cpa"))

\* pd.concat([base_times, extras below the limit, extras below the best
\* preferred time]).drop_duplicates()
ConcatTimes(base_times, extras) ==
  DropDuplicates(
    base_times
    \o Filter(extras, LAMBDA t : Lt(t.cpa, Fin(ExtraCpaLimit, 1)))
    \o Filter(extras, LAMBDA t : Lt(t.cpa, BestPreferredCpa(base_times))),
    {})

\* good_times of a time_scores table: the preferred times and the extras.
GoodTimesOf(time_scores) ==
  ConcatTimes(Filter(time_scores, LAMBDA t : t.key \in preferred_times),
              Filter(time_scores, LAMBDA t : t.key \notin preferred_times))

\* good_times: the preferred times, the extras cheaper than the limit and the
\* extras cheaper than the best preferred time.
GoodTimes(group) == GoodTimesOf(TimeScores(group))

\* ", ".join(sorted(good_times.index.tolist()))
JoinedTimes(group) ==
  Join(<<",", " ">>, SortedStrs(Range(Col(GoodTimes(group), "key"))))

\* joined or "Not enough data"
OrNotEnoughData(joined) == IF joined = <<>> THEN NotEnoughData ELSE joined

\* best_times without the placeholder.
BestTimes_no_placeholder(group) == JoinedTimes(group)

\* best_times: ", ".join(sorted(times)) or "Not enough data".
BestTimes(group) == OrNotEnoughData(JoinedTimes(group))

-----------------------------------------------------------------------------
(* run_vor: venue summaries and ranking *)

\* A venue counts as used recently below this many days since its last event.
RecentDays == 60

\* The number of venues reported.
TopN == 4

\* One entry of venues.  The texts built from a number ("$12.5", "48.0%"),
\* from a date (strftime) and from a flag (a check mark or a cross) are
\* carried as the number, the date and the flag they print.
\* recent_event is the group's most recent event.
VenueSummary(venue_name, group, recent_event, today, display_city, display_state) ==
  [venue |-> venue_name,
   city |-> display_city,
   state |-> display_state,
   most_recent |-> recent_event.event_date,
   num_events |-> Len(group),
   avg_gross |-> Round(Mean(Col(group, "gross_registrants")), 1),
   avg_cpr |-> Round(Mean(Col(group, "fb_cpr")), 2),
   avg_cpa |-> Round(Mean(Col(group, "cpa")), 2),
   attendance_rate |->
     Round(Mul(Mean(Col(group, "attendance_rate")), Fin(100, 1)), 1),
   fulfillment_pct |->
     Round(Mul(Mean(Col(group, "fulfillment_pct")), Fin(100, 1)), 1),
   image_allowed |-> is_true(recent_event.image_allowed),
   disclosure_needed |-> is_true(recent_event.venue_disclosure),
   used_recently |-> recent_event.event_date # NaT
                     /\ today - recent_event.event_date < RecentDays,
   best_days |-> BestDays(group),
   best_times |-> BestTimes(group),
   score |-> Round(Mean(Col(group, "score")), 2)]

\* venues: one entry per venue of filtered.groupby("venue").
Venues(filtered, keys, today, tie, display_city, display_state) ==
  [i \in 1..Len(keys) |->
     VenueSummary(keys[i], Group(filtered, keys[i]),
                  MostRecent(Group(filtered, keys[i]), tie),
                  today, display_city, display_state)]

Reverse(seq) == [i \in 1..Len(seq) |-> seq[Len(seq) + 1 - i]]

\* The sort key of venues_sorted, float(x["score"]), compared with <.
KeyLt(a, b) == Lt(a.score, b.score)

RECURSIVE RunEnd(_, _, _)
\* count_run of list.sort: the end of the initial run, which is strictly
\* descending (desc) or non-descending.
RunEnd(seq, i, desc) ==
  IF i > Len(seq) THEN Len(seq)
  ELSE IF KeyLt(seq[i], seq[i - 1]) = desc THEN RunEnd(seq, i + 1, desc)
  ELSE i - 1

RECURSIVE Bisect(_, _, _, _)
\* The insertion offset binarysort finds for pivot among the first r elements.
Bisect(seq, pivot, l, r) ==
  IF l >= r THEN l
  ELSE LET p == l + ((r - l) \div 2)
       IN IF KeyLt(pivot, seq[p + 1]) THEN Bisect(seq, pivot, l, p)
          ELSE Bisect(seq, pivot, p + 1, r)

RECURSIVE BinarySort(_, _)
\* binarysort of list.sort: seq[1..start-1] is sorted, the rest is inserted.
BinarySort(seq, start) ==
  IF start > Len(seq) THEN seq
  ELSE LET pivot == seq[start]
           l == Bisect(seq, pivot, 0, start - 1)
       IN BinarySort(SubSeq(seq, 1, l) \o <<pivot>> \o SubSeq(seq, l + 1, start - 1)
                     \o SubSeq(seq, start + 1, Len(seq)),
                     start + 1)

\* list.sort of a short list (fewer than 64 entries): the initial run, reversed
\* when descending, then binary insertion of the rest.
ListSort(seq) ==
  IF Len(seq) < 2 THEN seq
  ELSE LET desc == KeyLt(seq[2], seq[1])
           n == RunEnd(seq, 3, desc)
           run == SubSeq(seq, 1, n)
       IN BinarySort((IF desc THEN Reverse(run) ELSE run)
                     \o SubSeq(seq, n + 1, Len(seq)), n + 1)

\* sorted(venues, key=score, reverse=True): the list is reversed, sorted
\* ascending and reversed again, which keeps equal keys in their first order.
SortedVenues(venues) == Reverse(ListSort(Reverse(venues)))

\* venues_sorted without the cut.
TopVenues_uncut(venues_sorted) == venues_sorted

\* venues_sorted[:4]
TopVenues(venues_sorted) ==
  IF Len(venues_sorted) <= TopN THEN venues_sorted ELSE SubSeq(venues_sorted, 1, TopN)

-----------------------------------------------------------------------------
(* run_vor: the handler *)

\* request.state when the request gives none.
None == <<"<None>">>

NoExc == [type |-> "none", status_code |-> 200, detail |-> ""]

HTTPException(status_code, detail) ==
  [type |-> "HTTPException", status_code |-> status_code, detail |-> detail]

\* request.state.strip() with state None.
AttributeError ==
  [type |-> "AttributeError", status_code |-> 0,
   detail |-> "'NoneType' object has no attribute 'strip'"]

\* NaT.strftime(...): the most recent event of a venue has no date.
ValueError ==
  [type |-> "ValueError", status_code |-> 0,
   detail |-> "NaTType does not support strftime"]

NoRow == [venue |-> NA, event_date |-> NaT]

\* The locals of a pass that has not started.
NoLocal ==
  [exc |-> NoExc, today |-> 0, by_zip |-> FALSE, topic |-> NoTopic,
   similar_cities |-> {}, filtered |-> <<>>, display_city |-> <<>>,
   display_state |-> <<>>, venues |-> <<>>, top_venues |-> <<>>,
   most_recent_venue |-> NoRow]

Raise(loc, exc) == [loc EXCEPT !.exc = exc]

\* The locals once the topic is looked up.
Start(today, by_zip, topic) ==
  [NoLocal EXCEPT !.today = today, !.by_zip = by_zip, !.topic = topic]

\* The report: strftime of the most recent date of each venue while venues is
\* built, then of the most recent date of filtered.
run_vor_report(scored, venues, top_venues, most_recent_venue) ==
  IF \E i \in 1..Len(venues) : venues[i].most_recent = NaT
  THEN Raise(scored, ValueError)
  ELSE IF most_recent_venue.event_date = NaT
  THEN Raise([scored EXCEPT !.venues = venues, !.top_venues = top_venues],
             ValueError)
  ELSE [scored EXCEPT !.venues = venues,
                      !.top_venues = top_venues,
                      !.most_recent_venue =
                        [venue |-> most_recent_venue.venue,
                         event_date |-> most_recent_venue.event_date]]

\* The ranking of venues, its cut, and the most recent event of filtered.
run_vor_rank(scored, venues, tie) ==
  run_vor_report(scored, venues, TopVenues(SortedVenues(venues)),
                 MostRecent(scored.filtered, tie))

\* The loop over filtered.groupby("venue").
run_vor_venues(scored, today, tie) ==
  run_vor_rank(scored,
               Venues(scored.filtered, VenueKeys(scored.filtered), today, tie,
                      scored.display_city, scored.display_state),
               tie)

\* The check for no event, then the derived columns.
run_vor_score(located, selected, today, tie) ==
  IF selected = <<>>
  THEN Raise(located, HTTPException(404, "No matching events found."))
  ELSE run_vor_venues([located EXCEPT !.filtered = Derive(selected, today)],
                      today, tie)

\* The branch of a postal code: display_city and display_state are those of
\* the first event selected.
run_vor_zip(start, req, selected, today, tie) ==
  run_vor_score(
    [start EXCEPT
       !.display_city = IF selected # <<>> THEN selected[1].city ELSE req.city,
       !.display_state = IF selected # <<>> THEN selected[1].state ELSE <<>>],
    selected, today, tie)

\* The branch of a city and a state.
run_vor_city(start, table, state, similar_cities, today, tie) ==
  IF similar_cities = {}
  THEN Raise(start, HTTPException(404, "No similar city matches found."))
  ELSE run_vor_score(
         [start EXCEPT
            !.similar_cities = similar_cities,
            !.display_city =
              Join(<<",", " ">>, SortedStrs({Title(c) : c \in similar_cities})),
            !.display_state = state],
         FilterByCity(table, start.topic, similar_cities, state), today, tie)

\* The topic check and the choice of the branch.
run_vor_topic(table, req, today, tie, start) ==
  IF start.topic = NoTopic
  THEN Raise(start, HTTPException(400, "Invalid topic code. Use TIR, EP, or SS."))
  ELSE IF start.by_zip
  THEN run_vor_zip(start, req,
                   FilterByZip(table, start.topic, ZFill(Strip(req.city), 5)),
                   today, tie)
  ELSE IF req.state = None THEN Raise(start, AttributeError)
  ELSE run_vor_city(start, table, Upper(Strip(req.state)),
                    get_similar_cities(table, Strip(req.city), Upper(Strip(req.state))),
                    today, tie)

\* The try block of run_vor: the locals it ends with, exc being the exception
\* it raised, if any.
run_vor_try(table, req, today, tie) ==
  run_vor_topic(table, req, today, tie,
                Start(today, IsDigit(req.city) /\ Len(req.city) = 5,
                      TOPIC_MAP(Upper(Strip(req.topic)))))

\* What the caller receives: the report, or the HTTPException that the
\* except clause raises for every exception of the try block (an
\* HTTPException included): status 500, "Server error: " and the message.
Respond(loc) ==
  IF loc.exc.type = "none"
  THEN [status_code |-> 200, detail |-> <<>>,
        report |-> [most_recent_venue |-> loc.most_recent_venue,
                    display_city |-> loc.display_city,
                    top_venues |-> loc.top_venues,
                    top_pick |-> IF loc.top_venues # <<>>
                                 THEN loc.top_venues[1].venue ELSE NA]]
  ELSE [status_code |-> 500, detail |-> <<"Server error: ", loc.exc.detail>>,
        report |-> [most_recent_venue |-> NoRow, display_city |-> <<>>,
                    top_venues |-> <<>>, top_pick |-> NA]]

-----------------------------------------------------------------------------
(* The datasets and requests explored *)

\* The largest number of rows of a dataset drawn from Catalog.
MaxRows == 4

\* The largest number of rows of a dataset drawn from RankCatalog.
MaxRankRows == 5

\* The day number the event dates are laid out around.
Epoch == 1000

\* pd.Timestamp.today() of a pass.
Todays == {Epoch, Epoch + 40}

\* Which of several rows with the same latest date a sort puts first.
Ties == {"first", "last"}

Oak == <<"O", "a", "k">>
Ash == <<"A", "s", "h">>
Bay == <<"B", "a", "y">>
Elm == <<"E", "l", "m">>
Fir == <<"F", "i", "r">>
Yew == <<"Y", "e", "w">>

Troy == <<"T", "r", "o", "y">>
TroyRaw == <<" ", "t", "r", "o", "y">>
EastTroy == <<"E", "a", "s", "t", " ", "T", "r", "o", "y">>
Trey == <<"T", "r", "e", "y">>

IL == <<"I", "L">>
ILRaw == <<"i", "l", " ">>
MO == <<"M", "O">>

Zip1 == <<"6", "2", "7", "0", "1">>
Zip2 == <<"6", "2", "7", "0", "2">>
ZipShort == <<"2", "1", "3", "4">>

T1000 == <<"1", "0", ":", "0", "0">>
T1000Raw == <<"1", "0", ":", "0", "0", " ">>
T1400 == <<"1", "4", ":", "0", "0">>

FlagTrue == <<"T", "R", "U", "E">>
FlagFalse == <<"F", "A", "L", "S", "E">>
FlagTrueRaw == <<" ", "t", "r", "u", "e">>
FlagNaN == <<"n", "a", "n">>

TopicTIR == "taxes_in_retirement_567"
TopicEP == "estate_planning_567"

N(k) == Fin(k, 1)

Raw(venue, city, state, zip_code, topic, event_date, event_time, attended_hh,
    gross_registrants, registration_max, fb_cpr, venue_disclosure, image_allowed) ==
  [venue |-> venue, city |-> city, state |-> state, zip_code |-> zip_code,
   topic |-> topic, event_date |-> event_date, event_time |-> event_time,
   attended_hh |-> attended_hh, gross_registrants |-> gross_registrants,
   registration_max |-> registration_max, fb_cpr |-> fb_cpr,
   venue_disclosure |-> venue_disclosure, image_allowed |-> image_allowed]

\* Rows of one market: a venue with three identical events of different
\* ages, one event without a date and one without registrants; cities that
\* resemble the requested one; a second state, a second topic, a missing
\* venue, time, cost and a short zip code.
Catalog ==
  << Raw(Oak, Troy, IL, Zip1, TopicTIR, Epoch - 10, H1100,
         N(1), N(2), N(4), N(10), FlagFalse, FlagTrue),
     Raw(Oak, Troy, IL, Zip1, TopicTIR, Epoch - 50, H1800,
         N(1), N(2), N(4), N(10), FlagTrue, FlagFalse),
     Raw(Oak, TroyRaw, ILRaw, Zip1, TopicTIR, Epoch - 200, T1000Raw,
         N(1), N(2), N(4), N(10), FlagTrue, FlagFalse),
     Raw(Oak, Troy, IL, Zip1, TopicTIR, NaT, H1100,
         N(1), N(2), N(4), N(10), FlagTrueRaw, FlagNaN),
     Raw(Oak, Troy, IL, Zip1, TopicTIR, Epoch - 100, T1400,
         N(0), N(0), N(4), N(10), FlagTrue, FlagFalse),
     Raw(Elm, EastTroy, IL, Zip2, TopicTIR, Epoch - 30, H1130,
         N(2), N(4), N(6), N(20), FlagFalse, FlagFalse),
     Raw(Fir, Trey, IL, ZipShort, TopicTIR, Epoch - 5, NA,
         N(1), N(2), N(4), NaN, FlagNaN, FlagTrue),
     Raw(Elm, Troy, MO, Zip1, TopicTIR, Epoch - 3, H1800,
         N(3), N(4), N(8), N(30), FlagTrue, FlagTrue),
     Raw(NA, Troy, IL, Zip1, TopicTIR, Epoch - 1, H1100,
         N(2), N(3), N(5), N(12), FlagFalse, FlagTrue),
     Raw(Fir, Troy, IL, Zip1, TopicEP, Epoch - 15, H1800,
         N(2), N(3), N(5), N(12), FlagFalse, FlagTrue) >>

\* Rows of one market and topic, of six venues: two whose scores differ by
\* less than a cent, one without registrants (an infinite attendance rate),
\* one without registrants or attendance (nan), one without attendance.
RankCatalog ==
  << Raw(Ash, Troy, IL, Zip1, TopicTIR, Epoch - 20, T1000,
         N(1), N(2), N(4), N(5000), FlagFalse, FlagTrue),
     Raw(Bay, Troy, IL, Zip1, TopicTIR, Epoch - 70, T1400,
         N(1), N(2), N(4), N(2500), FlagTrueRaw, FlagNaN),
     Raw(Elm, Troy, IL, Zip1, TopicTIR, Epoch - 30, H1130,
         N(2), N(4), N(6), N(20), FlagFalse, FlagFalse),
     Raw(Fir, Troy, IL, Zip1, TopicTIR, Epoch - 5, H1100,
         N(0), N(0), N(4), N(10), FlagNaN, FlagTrue),
     Raw(Oak, Troy, IL, Zip1, TopicTIR, Epoch - 10, H1100,
         N(1), N(2), N(4), N(10), FlagFalse, FlagTrue),
     Raw(Yew, Troy, IL, Zip1, TopicTIR, Epoch - 20, H1830,
         N(1), N(0), N(4), N(10), FlagFalse, FlagTrue),
     Raw(Ash, Troy, IL, Zip1, TopicTIR, Epoch - 90, T1400,
         N(0), N(2), N(4), N(10), FlagTrue, FlagTrue) >>

RECURSIVE SubTables(_, _)
\* The tables of at most n rows taken from seq in order.
SubTables(seq, n) ==
  IF seq = <<>> \/ n = 0 THEN {<<>>}
  ELSE SubTables(Tail(seq), n)
       \cup {<<Head(seq)>> \o t : t \in SubTables(Tail(seq), n - 1)}

RawTables == SubTables(Catalog, MaxRows) \cup SubTables(RankCatalog, MaxRankRows)

RequestTopics == {<<"t", "i", "r", " ">>, EP, <<"X", "X">>}
RequestCities == {<<"t", "r", "o", "y", " ">>, Zip1, <<"P", "a", "r", "i", "s">>}
RequestStates == {None, <<" ", "i", "l">>}

NoRequest == [topic |-> <<>>, city |-> <<>>, state |-> None]

\* No response yet: the request is waiting for its handler.
Pending == [status_code |-> 0, detail |-> <<>>,
            report |-> [most_recent_venue |-> NoRow, display_city |-> <<>>,
                        top_venues |-> <<>>, top_pick |-> NA]]

-----------------------------------------------------------------------------
(* mar.py: the market report over a table passed by the caller *)

\* A value that is None.
NoneNum == [k |-> "none", n |-> 0, d |-> 1]

\* Index.str.lower().str.replace(" ", "_").str.replace(r"[^\w\s]", ""):
\* one column name.
CleanName(name) ==
  LET lowered == Lower(name)
      under == [i \in 1..Len(lowered) |-> IF lowered[i] = " " THEN "_" ELSE lowered[i]]
  IN Filter(under, LAMBDA c : IsDigitChar(c) \/ IsLowerChar(c) \/ c = "_")

ColMarket == <<"m", "a", "r", "k", "e", "t">>
ColAttendanceRate == <<"a", "t", "t", "e", "n", "d", "a", "n", "c", "e", "_", "r", "a", "t", "e">>
ColFulfillment == <<"f", "u", "l", "f", "i", "l", "l", "m", "e", "n", "t">>

RECURSIVE AddColumns(_, _)
\* df[name] = ... for each name: a new column is appended, an existing one
\* is overwritten in place.
AddColumns(columns, names) ==
  IF names = <<>> THEN columns
  ELSE AddColumns(IF Head(names) \in Range(columns) THEN columns
                  ELSE Append(columns, Head(names)), Tail(names))

Market(row) ==
  IF row.city = NA \/ row.state = NA THEN NA
  ELSE Strip(row.city) \o <<",", " ">> \o Strip(row.state)

\* clean_columns(df): the table it returns, which is the very table it was
\* given, changed in place: the column names cleaned and the columns market,
\* attendance_rate and fulfillment added.
clean_columns(table) ==
  [columns |->
     AddColumns([i \in 1..Len(table.columns) |-> CleanName(table.columns[i])],
                <<ColMarket, ColAttendanceRate, ColFulfillment>>),
   rows |->
     [i \in 1..Len(table.rows) |->
        [market |-> Market(table.rows[i]),
         attendance_rate |-> attendance_rate(table.rows[i]),
         fulfillment |-> fulfillment_pct(table.rows[i])] @@ table.rows[i]]]

\* The default slope of estimate_decay_cpr, -0.014 per day.
slope == Fin(0 - 7, 500)

\* estimate_decay_cpr(base_cpr, days_since_last)
estimate_decay_cpr(base_cpr, days_since_last) ==
  IF days_since_last # NoneNum /\ ~IsNaN(base_cpr)
  THEN Add(base_cpr, Mul(slope, days_since_last))
  ELSE base_cpr

NoOverlay == [empty |-> TRUE, avg_cpm |-> NaN, estimated_cvr |-> NaN,
              registrants_per_1k |-> NaN, estimated_media_cpr |-> NaN,
              avg_frequency |-> NaN]

\* calculate_media_overlay(df)
calculate_media_overlay(rows) ==
  LET frequency == [i \in 1..Len(rows) |-> Div(rows[i].fb_impressions, rows[i].fb_reach)]
      registrants_per_1k ==
        [i \in 1..Len(rows) |->
           Div(rows[i].gross_registrants, Div(rows[i].fb_impressions, N(1000)))]
      estimated_cvr ==
        [i \in 1..Len(rows) |-> Div(rows[i].gross_registrants, rows[i].fb_impressions)]
      estimated_cpr ==
        [i \in 1..Len(rows) |-> Div(rows[i].cpm, registrants_per_1k[i])]
  IN IF rows = <<>> THEN NoOverlay
     ELSE [empty |-> FALSE,
           avg_cpm |-> Round(Mean(Col(rows, "cpm")), 2),
           estimated_cvr |-> Round(Mean(estimated_cvr), 4),
           registrants_per_1k |-> Round(Mean(registrants_per_1k), 2),
           estimated_media_cpr |-> Round(Mean(estimated_cpr), 2),
           avg_frequency |-> Round(Mean(frequency), 2)]

Count(rows, venue_name) == Len(Group(rows, venue_name))

\* Series.mode().iloc[0]: the most frequent venue, the first in str order
\* among the most frequent ones.
Mode(rows) ==
  LET keys == VenueKeys(rows)
      most == Filter(keys, LAMBDA v : \A w \in Range(keys) : Count(rows, w) <= Count(rows, v))
  IN most[1]

\* round(x, ndigits) if pd.notna(x) else None
RoundOrNone(x, ndigits) == IF IsNaN(x) THEN NoneNum ELSE Round(x, ndigits)

\* The result of generate_mar on the cleaned table.  event_date_str is
\* carried as the date it denotes, NaT standing for no date given.
MarResult(rows, topic, city, state, event_date_str, today) ==
  LET topic_code == Upper(topic)
      event_date == IF event_date_str # NaT THEN event_date_str ELSE today
      filtered ==
        Filter(rows, LAMBDA row :
          /\ row.topic = topic_code
          /\ row.city # NA /\ Strip(Lower(row.city)) = Strip(Lower(city))
          /\ row.state # NA /\ Strip(Upper(row.state)) = Strip(Upper(state)))
      venue == Mode(filtered)
      venue_events == Group(filtered, venue)
      dated == Filter(venue_events, HasDate)
      last_event_date == MostRecent(venue_events, "first").event_date
      days_since_venue ==
        IF dated # <<>> THEN N(event_date - last_event_date) ELSE NoneNum
      predicted_regs == Mean(Col(venue_events, "gross_registrants"))
      predicted_cpr ==
        estimate_decay_cpr(Mean(Col(venue_events, "cost_per_verified_hh")),
                           days_since_venue)
      media_df ==
        Filter(venue_events, LAMBDA row :
          ~IsNaN(row.fb_impressions) /\ ~IsNaN(row.fb_reach)
          /\ ~IsNaN(row.cpm) /\ ~IsNaN(row.gross_registrants))
  IN IF filtered = <<>>
     THEN [error |-> "No matching events found for this topic and market."]
     ELSE [venue |-> venue,
           market |-> Title(city) \o <<",", " ">> \o Upper(state),
           topic |-> topic_code,
           event_date |-> event_date,
           days_since_last_venue_use |-> days_since_venue,
           predicted_registrants |-> RoundOrNone(predicted_regs, 1),
           predicted_cpr |-> RoundOrNone(predicted_cpr, 2),
           media_overlay |-> calculate_media_overlay(media_df)]

\* The largest number of rows of a table passed to generate_mar.
MaxMarRows == 3

MarRow(venue, city, state, topic, event_date, attended_hh, gross_registrants,
       registration_max, cost_per_verified_hh, fb_impressions, fb_reach, cpm_) ==
  [venue |-> venue, city |-> city, state |-> state, topic |-> topic,
   event_date |-> event_date, attended_hh |-> attended_hh,
   gross_registrants |-> gross_registrants,
   registration_max |-> registration_max,
   cost_per_verified_hh |-> cost_per_verified_hh,
   fb_impressions |-> fb_impressions, fb_reach |-> fb_reach, cpm |-> cpm_]

MarCatalog ==
  << MarRow(Oak, Troy, IL, TIR, Epoch - 10, N(1), N(2), N(4), N(20),
            N(1000), N(500), N(10)),
     MarRow(Oak, TroyRaw, ILRaw, TIR, Epoch - 50, N(2), N(4), N(6), N(30),
            N(2000), N(800), N(12)),
     MarRow(Ash, Troy, IL, TIR, NaT, N(1), N(0), N(4), NaN,
            NaN, N(500), N(10)),
     MarRow(Ash, Troy, IL, EP, Epoch - 20, N(0), N(2), N(4), N(25),
            N(0), N(0), N(8)),
     MarRow(Bay, Troy, MO, TIR, Epoch - 5, N(3), N(4), N(8), N(15),
            N(3000), N(1000), N(9)) >>

\* The column names as exported and as already cleaned.
MarHeaders ==
  { << <<"V", "e", "n", "u", "e">>, <<"C", "i", "t", "y">>, <<"S", "t", "a", "t", "e">>, <<"T", "o", "p", "i", "c">>, <<"E", "v", "e", "n", "t", " ", "D", "a", "t", "e">>, <<"A", "t", "t", "e", "n", "d", "e", "d", " ", "H", "H">>,
       <<"G", "r", "o", "s", "s", " ", "R", "e", "g", "i", "s", "t", "r", "a", "n", "t", "s">>, <<"R", "e", "g", "i", "s", "t", "r", "a", "t", "i", "o", "n", " ", "M", "a", "x">>, <<"C", "o", "s", "t", " ", "p", "e", "r", " ", "V", "e", "r", "i", "f", "i", "e", "d", " ", "H", "H">>,
       <<"F", "B", " ", "I", "m", "p", "r", "e", "s", "s", "i", "o", "n", "s">>, <<"F", "B", " ", "R", "e", "a", "c", "h">>, <<"C", "P", "M">> >>,
    << <<"v", "e", "n", "u", "e">>, <<"c", "i", "t", "y">>, <<"s", "t", "a", "t", "e">>, <<"t", "o", "p", "i", "c">>, <<"e", "v", "e", "n", "t", "_", "d", "a", "t", "e">>, <<"a", "t", "t", "e", "n", "d", "e", "d", "_", "h", "h">>,
       <<"g", "r", "o", "s", "s", "_", "r", "e", "g", "i", "s", "t", "r", "a", "n", "t", "s">>, <<"r", "e", "g", "i", "s", "t", "r", "a", "t", "i", "o", "n", "_", "m", "a", "x">>, <<"c", "o", "s", "t", "_", "p", "e", "r", "_", "v", "e", "r", "i", "f", "i", "e", "d", "_", "h", "h">>,
       <<"f", "b", "_", "i", "m", "p", "r", "e", "s", "s", "i", "o", "n", "s">>, <<"f", "b", "_", "r", "e", "a", "c", "h">>, <<"c", "p", "m">> >> }

MarTopics == {<<"t", "i", "r">>, EP}
MarCities == {<<"t", "r", "o", "y", " ">>, <<"P", "a", "r", "i", "s">>}
MarStates == {<<" ", "i", "l">>}
MarDates == {NaT, Epoch + 7}

InitMar ==
  /\ df = <<>>
  /\ request = NoRequest
  /\ response = Pending
  /\ local = NoLocal
  /\ \E header \in MarHeaders, rows \in SubTables(MarCatalog, MaxMarRows) :
       caller_df = [columns |-> header, rows |-> rows]
  /\ mar_args = <<>>
  /\ mar_result = <<>>

\* A caller runs generate_mar(df, topic, city, state, event_date_str) on its
\* table: clean_columns changes that table in place, the report is returned.
GenerateMar(topic, city, state, event_date_str, today) ==
  /\ caller_df' = clean_columns(caller_df)
  /\ mar_args' = <<topic, city, state, event_date_str, today>>
  /\ mar_result' = MarResult(caller_df'.rows, topic, city, state, event_date_str, today)
  /\ UNCHANGED <<df, request, response, local>>

NextMar ==
  \E topic \in MarTopics, city \in MarCities, state \in MarStates,
     event_date_str \in MarDates, today \in Todays :
    GenerateMar(topic, city, state, event_date_str, today)

SpecMar == InitMar /\ [][NextMar]_vars

-----------------------------------------------------------------------------
(* The service: df is loaded once, then requests are handled one at a time *)

NoMarDf == [columns |-> <<>>, rows |-> <<>>]

Init ==
  /\ \E rawTable \in RawTables : df = LoadData(rawTable)
  /\ request = NoRequest
  /\ response = Pending
  /\ local = NoLocal
  /\ caller_df = NoMarDf
  /\ mar_args = <<>>
  /\ mar_result = <<>>

\* A POST /vor arrives (the previous one, if any, has been answered).
Request(topic, city, state) ==
  /\ request = NoRequest \/ response # Pending
  /\ request' = [topic |-> topic, city |-> city, state |-> state]
  /\ response' = Pending
  /\ local' = NoLocal
  /\ UNCHANGED <<df, caller_df, mar_args, mar_result>>

\* run_vor handles the waiting request: the try block, then the except
\* clause.  The handler has no await, so nothing interleaves with it.
RunVor(today, tie) ==
  /\ request # NoRequest /\ response = Pending
  /\ local' = run_vor_try(df, request, today, tie)
  /\ response' = Respond(local')
  /\ UNCHANGED <<df, request, caller_df, mar_args, mar_result>>

Next ==
  \/ \E topic \in RequestTopics, city \in RequestCities, state \in RequestStates :
       Request(topic, city, state)
  \/ \E today \in Todays, tie \in Ties : RunVor(today, tie)

Spec == Init /\ [][Next]_vars

-----------------------------------------------------------------------------
(* Properties *)

\* The request has been handled and the caller has its response.
Handled == request # NoRequest /\ response # Pending

\* run_vor answered the request with a report.
Answered == Handled /\ response.status_code = 200

\* The events that passed the topic and location filter, by venue.
Events(venue_name) == Group(local.filtered, venue_name)

\* The unrounded mean score of a venue's events.
MeanScore(venue_name) == Mean(Col(Events(venue_name), "score"))

Top == response.report.top_venues

\* C1: a successful run_vor ranks at most 4 venues and at most as many as
\* there are distinct venue names among the events that passed the topic and
\* location filter, and no venue appears twice in the ranking.
C1_TopVenuesBounded ==
  Answered =>
    /\ Len(Top) <= 4
    /\ Len(Top) <= Cardinality({local.filtered[i].venue :
                                  i \in 1..Len(local.filtered)} \ {NA})
    /\ \A i, j \in 1..Len(Top) : i # j => Top[i].venue # Top[j].venue

\* C1 witness: more than four venues passed the filter and four are ranked.
C1_Witness ==
  /\ Answered
  /\ Cardinality({local.filtered[i].venue : i \in 1..Len(local.filtered)} \ {NA}) > 4
  /\ Len(Top) = 4

\* C2: the ranked venues are ordered by mean score descending, venues with
\* equal mean score by ascending name: of two adjacent venues a before b,
\* mean_score(a) > mean_score(b), or the means are equal and name(a) < name(b).
C2_RankedByMeanScore ==
  Answered =>
    \A i \in 1..(Len(Top) - 1) :
      LET a == Top[i]
          b == Top[i + 1]
      IN \/ Lt(MeanScore(b.venue), MeanScore(a.venue))
         \/ /\ IsFin(MeanScore(a.venue))
            /\ MeanScore(a.venue) = MeanScore(b.venue)
            /\ StrLt(a.venue, b.venue)

\* An event whose derived metrics and score are all defined: registrants and
\* attendance above zero, a positive finite cost per verified household.
Defined(row) ==
  /\ IsFin(row.gross_registrants) /\ ~IsZero(row.gross_registrants)
  /\ IsFin(row.attendance_rate) /\ ~IsZero(row.attendance_rate)
  /\ IsFin(row.fulfillment_pct)
  /\ IsFin(row.cpa) /\ ~IsZero(row.cpa)
  /\ IsFin(row.score)

\* C3: an event whose derived metrics or score are undefined contributes to
\* no venue summary: it is not counted in num_events and it adds no value to
\* the venue's mean score, cost, attendance rate or fulfillment.
C3_UndefinedRowsExcluded ==
  Answered =>
    \A i \in 1..Len(Top) :
      LET valid == Filter(Events(Top[i].venue), Defined)
      IN /\ Top[i].num_events = Len(valid)
         /\ Top[i].score = Round(Mean(Col(valid, "score")), 2)
         /\ Top[i].avg_cpa = Round(Mean(Col(valid, "cpa")), 2)
         /\ Top[i].attendance_rate =
              Round(Mul(Mean(Col(valid, "attendance_rate")), N(100)), 1)
         /\ Top[i].fulfillment_pct =
              Round(Mul(Mean(Col(valid, "fulfillment_pct")), N(100)), 1)

\* C4: a request whose topic, trimmed and upper-cased, is not TIR, EP or SS
\* reaches the caller as the client error raised at the topic check (status
\* 400), whatever city and state it names.
C4_InvalidTopicIsClientError ==
  (Handled /\ Upper(Strip(request.topic)) \notin {TIR, EP, SS}) =>
    response.status_code = 400

\* C5: when the topic and location filter leaves no similar city or no event,
\* the caller receives the no-results outcome raised at that point (status
\* 404), never a server failure.
C5_NoMatchIsNoResults ==
  (Handled /\ local.exc.type = "HTTPException" /\ local.exc.status_code = 404) =>
    response.status_code = 404

\* The step function of the event's age in whole days: 1.25 up to 30 days,
\* 1.00 up to 90 days, 0.80 beyond.
recency_weight(age) ==
  IF age <= 30 THEN Fin(5, 4) ELSE IF age <= 90 THEN Fin(1, 1) ELSE Fin(4, 5)

\* raw = 0.5 / cost per verified household + 0.3 * fulfillment + 0.2 * attendance
RawScore(row) ==
  Add(Add(Div(Fin(1, 2), row.cpa), Mul(Fin(3, 10), row.fulfillment_pct)),
      Mul(Fin(1, 5), row.attendance_rate))

Age(row) == local.today - row.event_date

SameMetrics(r1, r2) ==
  /\ r1.attended_hh = r2.attended_hh
  /\ r1.gross_registrants = r2.gross_registrants
  /\ r1.registration_max = r2.registration_max
  /\ r1.fb_cpr = r2.fb_cpr

C7_DatasetsNeverMutated == [][df' = df /\ caller_df' = caller_df]_vars

Resembling ==
  {Lower(Strip(df[i].city)) : i \in {j \in 1..Len(df) :
     /\ df[j].city # NA /\ df[j].state # NA
     /\ Upper(Strip(df[j].state)) = Upper(Strip(request.state))
     /\ token_set_ratio(Lower(Strip(request.city)), Lower(Strip(df[j].city))) >= 75}}

C9_FlagsFromMostRecentEvent ==
  Answered =>
    \A v \in 1..Len(Top) :
      LET group == Events(Top[v].venue)
      IN \E i \in 1..Len(group) :
           /\ group[i].event_date # NaT
           /\ \A j \in 1..Len(group) : group[j].event_date <= group[i].event_date
           /\ Top[v].most_recent = group[i].event_date
           /\ Top[v].image_allowed =
                (Upper(Strip(group[i].image_allowed)) = FlagTrue)
           /\ Top[v].disclosure_needed =
                (Upper(Strip(group[i].venue_disclosure)) = FlagTrue)

\* C9 witness: a ranked venue has an event without a date and two older
\* events that agree on a flag the latest event contradicts.
C9_Witness ==
  /\ Answered
  /\ \E v \in 1..Len(Top) :
       LET group == Events(Top[v].venue)
       IN \E i, j, k \in 1..Len(group) :
            /\ group[i].event_date = NaT
            /\ j # k
            /\ group[j].event_date # NaT /\ group[k].event_date # NaT
            /\ group[j].event_date < Top[v].most_recent
            /\ group[k].event_date < Top[v].most_recent
            /\ is_true(group[j].venue_disclosure) # Top[v].disclosure_needed
            /\ is_true(group[k].venue_disclosure) # Top[v].disclosure_needed
            /\ is_true(group[i].image_allowed) # Top[v].image_allowed

\* The times at which a venue held events (the rows with a time).
EventTimes(group) == {group[i].event_time : i \in 1..Len(group)} \ {NA}

\* The days on which a venue held events (the rows with a date).
EventDays(group) == {group[i].event_day : i \in 1..Len(group)} \ {NoDay}

\* No event of the venue took place at hour 11.
NoMorning(group) == EventTimes(group) \cap {H1100, H1130} = {}

====
